---- MODULE Spec2Model ----
(***************************************************************************)
(* A model of package clog (src/clog.go): the process-wide configuration, *)
(* the ten public emission operations, the shared emit routine             *)
(* logWithTimestamp with its two annotation lookups, and standard output.  *)
(*                                                                         *)
(* A Go string is modelled as a sequence of text tokens, the empty string  *)
(* as << >>, and concatenation as \o, so that a line is assembled the way  *)
(* the code assembles it.  Every goroutine has a position (pc) inside the  *)
(* call it is executing; each position is one read of shared state or one  *)
(* write to standard output.                                               *)
(***************************************************************************)
EXTENDS Integers, Sequences, FiniteSets, TLC

(***************************************************************************)
(* Bounds of the model.                                                    *)
(***************************************************************************)
NumGoroutines == 2       \* goroutines that call the package
MaxCalls == 2            \* emission calls of a run over few inputs
MaxWideCalls == 1        \* emission calls of a run over many inputs
MaxClock == 3            \* the wall clock's last tick
MaxTags == 2             \* tags given to one Metric call
LevelMargin == 1         \* thresholds tried below PanicLevel and above TraceLevel
TicksPerMs == 2          \* resolution of the wall clock: ticks in a millisecond
LocalZoneOffsetMs == 7   \* offset of the local time zone from UTC

Goroutines == 1..NumGoroutines

(***************************************************************************)
(* LogLevel and its six named values (src/clog.go 61-81).                  *)
(***************************************************************************)
PanicLevel == 0
ErrorLevel == 1
WarningLevel == 2
InfoLevel == 3
DebugLevel == 4
TraceLevel == 5

\* LogLevel is an int: SetLogLevel takes values outside the named range too.
LevelArgs == (PanicLevel - LevelMargin)..(TraceLevel + LevelMargin)

(***************************************************************************)
(* The ten public operations, the prefix and the level each passes to      *)
(* logWithTimestamp, and the line of its call to logWithTimestamp.         *)
(***************************************************************************)
Channels ==
    {"Info", "Success", "Init", "Config", "Warning", "Error", "Debug",
     "Trace", "Panic", "Metric"}

Prefix ==
    [ch \in Channels |->
        CASE ch = "Info" -> <<"INFO     ">>
          [] ch = "Success" -> <<"SUCCESS  ">>
          [] ch = "Init" -> <<"INIT     ">>
          [] ch = "Config" -> <<"CONFIG   ">>
          [] ch = "Warning" -> <<"WARNING  ">>
          [] ch = "Error" -> <<"ERROR    ">>
          [] ch = "Debug" -> <<"DEBUG    ">>
          [] ch = "Trace" -> <<"TRACE    ">>
          [] ch = "Panic" -> <<"PANIC    ">>
          [] ch = "Metric" -> <<"METRIC   ">>]

ChannelLevel ==
    [ch \in Channels |->
        CASE ch \in {"Info", "Success", "Init", "Config", "Metric"} -> InfoLevel
          [] ch = "Warning" -> WarningLevel
          [] ch = "Error" -> ErrorLevel
          [] ch = "Debug" -> DebugLevel
          [] ch = "Trace" -> TraceLevel
          [] ch = "Panic" -> PanicLevel]

CallLine ==
    [ch \in Channels |->
        CASE ch = "Info" -> 149
          [] ch = "Success" -> 153
          [] ch = "Init" -> 157
          [] ch = "Config" -> 161
          [] ch = "Warning" -> 165
          [] ch = "Error" -> 169
          [] ch = "Debug" -> 174
          [] ch = "Trace" -> 178
          [] ch = "Panic" -> 183
          [] ch = "Metric" -> 192]

(***************************************************************************)
(* Call stacks.  A frame is a function, the path of its file and the line  *)
(* it is executing.                                                        *)
(***************************************************************************)
Frame(fn, file, line) == [fn |-> fn, file |-> file, line |-> line]

ClogFile == <<"clog", "clog.go">>

PublicFrame(ch) == Frame(ch, ClogFile, CallLine[ch])
LogFrame == Frame("logWithTimestamp", ClogFile, 131)
FileInfoFrame == Frame("getFileInfo", ClogFile, 108)

\* The frames of package clog, none of which is a caller of the package.
ClogFunctions == Channels \cup {"logWithTimestamp", "getFileInfo"}

\* The stacks an application calls from (src/sample/main.go): main calling
\* directly, a helper called by main calling, and no frame at all above the
\* public operation, for which runtime.Caller(3) reports ok = false.
MainFrame(line) == Frame("main.main", <<"sample", "main.go">>, line)
HelperFrame == Frame("main.performDatabaseOperation", <<"sample", "main.go">>, 11)
AppStacks == {<< >>, <<MainFrame(25)>>, <<MainFrame(40), HelperFrame>>}

(***************************************************************************)
(* Text.  fmt.Sprintf with the verbs the package and its callers use,      *)
(* strings.Join, strings.TrimPrefix and strings.Fields.                    *)
(***************************************************************************)
Verbs == {"%s", "%d", "%v"}
Whitespace == {" ", "\n", "\t"}

RECURSIVE Join(_, _)
Join(elems, sep) ==
    IF elems = << >> THEN << >>
    ELSE IF Len(elems) = 1 THEN elems[1]
    ELSE elems[1] \o sep \o Join(Tail(elems), sep)

\* args is a sequence of texts; each verb of the format takes the next one.
RECURSIVE Sprintf(_, _)
Sprintf(format, args) ==
    IF format = << >>
    THEN IF args = << >> THEN << >>
         ELSE <<"%!(EXTRA ">> \o Join(args, <<", ">>) \o <<")">>
    ELSE IF Head(format) \in Verbs
         THEN IF args = << >>
              THEN <<"%!", Head(format), "(MISSING)">> \o Sprintf(Tail(format), args)
              ELSE Head(args) \o Sprintf(Tail(format), Tail(args))
         ELSE <<Head(format)>> \o Sprintf(Tail(format), args)

TrimPrefix(s, prefix) ==
    IF Len(s) >= Len(prefix) /\ SubSeq(s, 1, Len(prefix)) = prefix
    THEN SubSeq(s, Len(prefix) + 1, Len(s))
    ELSE s

Fields(s) == SelectSeq(s, LAMBDA t : t \notin Whitespace)

(***************************************************************************)
(* The inputs of a call: a format with its arguments, or, for Metric, the  *)
(* name and the value as arguments and the tags.                           *)
(***************************************************************************)
In(format, args, tags) == [format |-> format, args |-> args, tags |-> tags]

TagNames == {<<"db=postgres">>, <<"host=primary">>}

RECURSIVE TagSeqs(_)
TagSeqs(n) ==
    IF n = 0 THEN {<< >>}
    ELSE TagSeqs(n - 1)
         \cup {Append(ts, t) : ts \in {x \in TagSeqs(n - 1) : Len(x) = n - 1}, t \in TagNames}

MessageInputs ==
    {In(<<"x">>, << >>, << >>), In(<<"y=", "%d">>, <<<<"5">>>>, << >>)}
MetricInputs ==
    {In(<< >>, <<<<"latency_ms">>, <<"156.3">>>>, tags) : tags \in TagSeqs(MaxTags)}

(***************************************************************************)
(* State.                                                                  *)
(***************************************************************************)
VARIABLES
    currentLogLevel,    \* src/clog.go 84
    showFileLine,       \* src/clog.go 85
    showGoroutineID,    \* src/clog.go 86
    wallClock,          \* the system's wall clock, in ticks of 1/TicksPerMs ms
    stdout,             \* standard output: the writes it received, in order
    pc,                 \* each goroutine's position in the call it executes
    local,              \* each goroutine's parameters and local variables
    calls,              \* history: one record per call of a public operation
    lastLevel,          \* history: the argument of the latest SetLogLevel
    lastFileLine,       \* history: the argument of the latest SetShowFileLine
    lastGoroutineID,    \* history: the argument of the latest SetShowGoroutineID
    clockBack           \* history: the wall clock was set back since the last reading

config == <<currentLogLevel, showFileLine, showGoroutineID>>
history == <<calls, lastLevel, lastFileLine, lastGoroutineID, clockBack>>
vars == <<currentLogLevel, showFileLine, showGoroutineID, wallClock, stdout, pc,
          local, calls, lastLevel, lastFileLine, lastGoroutineID, clockBack>>

NoLocal ==
    [ch |-> "", prefix |-> << >>, msg |-> << >>, level |-> 0, timestamp |-> << >>,
     fileInfo |-> << >>, goroutineInfo |-> << >>, stack |-> << >>, id |-> 0]

Init ==
    /\ currentLogLevel = InfoLevel
    /\ showFileLine = TRUE
    /\ showGoroutineID = TRUE
    /\ wallClock = 0
    /\ stdout = << >>
    /\ pc = [g \in Goroutines |-> "idle"]
    /\ local = [g \in Goroutines |-> NoLocal]
    /\ calls = << >>
    /\ lastLevel = InfoLevel
    /\ lastFileLine = TRUE
    /\ lastGoroutineID = TRUE
    /\ clockBack = FALSE

(***************************************************************************)
(* History of the calls in flight: every threshold, and every pair of the  *)
(* two flags, that holds while a call runs is noted in the call's record.  *)
(***************************************************************************)
Noted(level, fileLine, goroutineID) ==
    [i \in 1..Len(calls) |->
        IF calls[i].status = "running"
        THEN [calls[i] EXCEPT !.heldLevel = @ \cup {level},
                              !.heldFlags = @ \cup {<<fileLine, goroutineID>>}]
        ELSE calls[i]]

(***************************************************************************)
(* The setters (src/clog.go 89-102).  A goroutine calls one between its    *)
(* own emission calls.                                                     *)
(***************************************************************************)
SetLogLevel(g, level) ==
    /\ pc[g] = "idle"
    /\ currentLogLevel' = level
    /\ lastLevel' = level
    /\ calls' = Noted(level, showFileLine, showGoroutineID)
    /\ UNCHANGED <<showFileLine, showGoroutineID, wallClock, stdout, pc, local,
                   lastFileLine, lastGoroutineID, clockBack>>

\* (SetShowFileLineAndGoroutineID: the setter assigning the other flag too.)
SetShowFileLineAndGoroutineID(g, show) ==
    /\ pc[g] = "idle"
    /\ showFileLine' = show
    /\ showGoroutineID' = show
    /\ lastFileLine' = show
    /\ calls' = Noted(currentLogLevel, show, show)
    /\ UNCHANGED <<currentLogLevel, wallClock, stdout, pc, local,
                   lastLevel, lastGoroutineID, clockBack>>

SetShowFileLine(g, show) ==
    /\ pc[g] = "idle"
    /\ showFileLine' = show
    /\ lastFileLine' = show
    /\ calls' = Noted(currentLogLevel, show, showGoroutineID)
    /\ UNCHANGED <<currentLogLevel, showGoroutineID, wallClock, stdout, pc, local,
                   lastLevel, lastGoroutineID, clockBack>>

SetShowGoroutineID(g, show) ==
    /\ pc[g] = "idle"
    /\ showGoroutineID' = show
    /\ lastGoroutineID' = show
    /\ calls' = Noted(currentLogLevel, showFileLine, show)
    /\ UNCHANGED <<currentLogLevel, showFileLine, wallClock, stdout, pc, local,
                   lastLevel, lastFileLine, clockBack>>

(***************************************************************************)
(* The runtime and library calls of the lookups.                           *)
(***************************************************************************)
\* runtime.Caller(skip): the frame skip levels above its own caller, which
\* is the top of the stack; ok is false when the stack has no such frame.
runtime_Caller(stack, skip) ==
    IF skip < Len(stack)
    THEN [file |-> stack[Len(stack) - skip].file,
          line |-> stack[Len(stack) - skip].line, ok |-> TRUE]
    ELSE [file |-> << >>, line |-> 0, ok |-> FALSE]

\* filepath.Base: the last element of the path, "." for the empty path.
filepath_Base(path) == IF path = << >> THEN "." ELSE path[Len(path)]

\* runtime.Stack(buf, false): the text of the calling goroutine's trace,
\* which starts with the header line "goroutine <id> [running]:".
runtime_Stack(g, stack) ==
    <<"goroutine", " ", ToString(g), " ", "[running]:", "\n">>
    \o (IF stack = << >> THEN << >>
        ELSE <<stack[Len(stack)].fn, "(...)", "\n">>)

\* time.Now(): the wall clock, in the local time zone.
time_Now == [wall |-> wallClock, offset |-> LocalZoneOffsetMs]

\* Time.UTC(): the same instant, in UTC.
\* (UTCSkipped: the time left in the local zone.)
UTCSkipped(t) == t

UTC(t) == [t EXCEPT !.offset = 0]

\* Time.Format("2006-01-02 15:04:05.000 UTC"): the time of day in the
\* value's zone cut to whole milliseconds, and the literal text " UTC".
Format(t) == <<ToString((t.wall \div TicksPerMs) + t.offset), " UTC">>

(***************************************************************************)
(* getFileInfo (src/clog.go 104-113), on the stack it runs on.             *)
(***************************************************************************)
\* Variants: ok not tested; one frame too few skipped; the other flag read.
getFileInfoUnchecked(stack) ==
    IF ~showFileLine THEN << >>
    ELSE LET c == runtime_Caller(stack, 3)
         IN  <<filepath_Base(c.file), ":", ToString(c.line)>>

getFileInfoSkipTwo(stack) ==
    IF ~showFileLine THEN << >>
    ELSE LET c == runtime_Caller(stack, 2)
         IN  IF ~c.ok THEN << >>
             ELSE <<filepath_Base(c.file), ":", ToString(c.line)>>

getFileInfoOtherFlag(stack) ==
    IF ~showGoroutineID THEN << >>
    ELSE LET c == runtime_Caller(stack, 3)
         IN  IF ~c.ok THEN << >>
             ELSE <<filepath_Base(c.file), ":", ToString(c.line)>>

getFileInfo(stack) ==
    IF ~showFileLine THEN << >>
    ELSE LET c == runtime_Caller(stack, 3)
         IN  IF ~c.ok THEN << >>
             ELSE <<filepath_Base(c.file), ":", ToString(c.line)>>

(***************************************************************************)
(* getGoroutineID (src/clog.go 115-123).  Indexing the fields at 0 panics  *)
(* when there is none.                                                     *)
(***************************************************************************)
getGoroutineID(g, stack) ==
    IF ~showGoroutineID THEN [panic |-> FALSE, val |-> << >>]
    ELSE LET fields == Fields(TrimPrefix(runtime_Stack(g, stack), <<"goroutine", " ">>))
         IN  IF fields = << >> THEN [panic |-> TRUE, val |-> << >>]
             ELSE [panic |-> FALSE, val |-> <<"(goroutine ", fields[1], ")">>]

(***************************************************************************)
(* logWithTimestamp (src/clog.go 125-145): the filter, the assembly of the *)
(* line and the write.                                                     *)
(***************************************************************************)
\* (SuppressedAtThreshold: the comparison made inclusive.)
SuppressedAtThreshold(level) == level >= currentLogLevel

Suppressed(level) == level > currentLogLevel

\* (logMsgSwapped: the two annotations appended in the other order.)
logMsgSwapped(prefix, timestamp, fileInfo, goroutineInfo, msg) ==
    prefix \o <<" [">> \o timestamp \o <<"]">>
    \o (IF goroutineInfo # << >> THEN <<" ">> \o goroutineInfo ELSE << >>)
    \o (IF fileInfo # << >> THEN <<" [">> \o fileInfo \o <<"]">> ELSE << >>)
    \o <<" ">> \o msg

logMsg(prefix, timestamp, fileInfo, goroutineInfo, msg) ==
    prefix \o <<" [">> \o timestamp \o <<"]">>
    \o (IF fileInfo # << >> THEN <<" [">> \o fileInfo \o <<"]">> ELSE << >>)
    \o (IF goroutineInfo # << >> THEN <<" ">> \o goroutineInfo ELSE << >>)
    \o <<" ">> \o msg

\* fmt.Println: the text and a newline, in one write to standard output.
\* (PrintlnTwoWrites: the newline written separately.)
PrintlnTwoWrites(out, text) == out \o <<text, <<"\n">>>>

Println(out, text) == Append(out, text \o <<"\n">>)

(***************************************************************************)
(* A call of a public operation.  Enter is the operation's own body up to  *)
(* its call of logWithTimestamp: the message is formatted and the          *)
(* operation's prefix and level are passed on.                             *)
(***************************************************************************)
CallRecord(g, ch, in, app) ==
    [g |-> g, ch |-> ch, in |-> in, app |-> app,
     level0 |-> lastLevel, fileLine0 |-> lastFileLine, goroutineID0 |-> lastGoroutineID,
     heldLevel |-> {currentLogLevel},
     heldFlags |-> {<<showFileLine, showGoroutineID>>},
     readsLevel |-> 0, readsFileLine |-> 0, readsGoroutineID |-> 0,
     clockAt |-> 0, backstep |-> FALSE, lines |-> << >>, status |-> "running"]

Enter(g, ch, msg, in, app) ==
    /\ pc[g] = "idle"
    /\ pc' = [pc EXCEPT ![g] = "filter"]
    /\ local' = [local EXCEPT ![g] =
                    [ch |-> ch, prefix |-> Prefix[ch], msg |-> msg,
                     level |-> ChannelLevel[ch], timestamp |-> << >>,
                     fileInfo |-> << >>, goroutineInfo |-> << >>,
                     stack |-> app \o <<PublicFrame(ch)>>, id |-> Len(calls) + 1]]
    /\ calls' = Append(calls, CallRecord(g, ch, in, app))
    /\ UNCHANGED <<config, wallClock, stdout, lastLevel, lastFileLine,
                   lastGoroutineID, clockBack>>

Info(g, in, app) == Enter(g, "Info", Sprintf(in.format, in.args), in, app)
Success(g, in, app) == Enter(g, "Success", Sprintf(in.format, in.args), in, app)
InitOp(g, in, app) == Enter(g, "Init", Sprintf(in.format, in.args), in, app)
Config(g, in, app) == Enter(g, "Config", Sprintf(in.format, in.args), in, app)
Warning(g, in, app) == Enter(g, "Warning", Sprintf(in.format, in.args), in, app)
Error(g, in, app) == Enter(g, "Error", Sprintf(in.format, in.args), in, app)
Debug(g, in, app) == Enter(g, "Debug", Sprintf(in.format, in.args), in, app)
Trace(g, in, app) == Enter(g, "Trace", Sprintf(in.format, in.args), in, app)
Panic(g, in, app) == Enter(g, "Panic", Sprintf(in.format, in.args), in, app)

\* Metric (src/clog.go 187-193): the message it formats from name, value, tags.
\* (MetricMsgAlwaysBracket: the test of len(tags) left out.)
MetricMsgAlwaysBracket(name, value, tags) ==
    LET tagStr == <<" [">> \o Join(tags, <<", ">>) \o <<"]">>
    IN  Sprintf(<<"%s", ": ", "%v", "%s">>, <<name, value, tagStr>>)

MetricMsg(name, value, tags) ==
    LET tagStr == IF Len(tags) > 0
                  THEN Sprintf(<<" [", "%s", "]">>, <<Join(tags, <<", ">>)>>)
                  ELSE << >>
    IN  Sprintf(<<"%s", ": ", "%v", "%s">>, <<name, value, tagStr>>)

Metric(g, in, app) ==
    Enter(g, "Metric", MetricMsg(in.args[1], in.args[2], in.tags), in, app)

(***************************************************************************)
(* The steps of logWithTimestamp.  Returning from it returns from the      *)
(* public operation too, except in Panic, which goes on to panic(msg).     *)
(***************************************************************************)
Finish(g, cs, status) ==
    /\ pc' = [pc EXCEPT ![g] = IF status = "panicked" THEN "panicked" ELSE "idle"]
    /\ local' = [local EXCEPT ![g] = NoLocal]
    /\ calls' = [cs EXCEPT ![local[g].id].status = status]

Return(g, cs) ==
    IF local[g].ch = "Panic"
    THEN /\ pc' = [pc EXCEPT ![g] = "panic"]
         /\ calls' = cs
         /\ UNCHANGED local
    ELSE Finish(g, cs, "returned")

\* src/clog.go 126-128
logFilter(g) ==
    /\ pc[g] = "filter"
    /\ LET cs == [calls EXCEPT ![local[g].id].readsLevel = @ + 1]
       IN  IF Suppressed(local[g].level)
           THEN Return(g, cs)
           ELSE /\ pc' = [pc EXCEPT ![g] = "timestamp"]
                /\ calls' = cs
                /\ UNCHANGED local
    /\ UNCHANGED <<config, wallClock, stdout, lastLevel, lastFileLine,
                   lastGoroutineID, clockBack>>

\* src/clog.go 130
logTimestamp(g) ==
    /\ pc[g] = "timestamp"
    /\ pc' = [pc EXCEPT ![g] = "fileInfo"]
    /\ local' = [local EXCEPT ![g].timestamp = Format(UTC(time_Now))]
    /\ calls' = [calls EXCEPT ![local[g].id].clockAt = wallClock,
                              ![local[g].id].backstep = clockBack]
    /\ clockBack' = FALSE
    /\ UNCHANGED <<config, wallClock, stdout, lastLevel, lastFileLine, lastGoroutineID>>

\* src/clog.go 131
logFileInfo(g) ==
    /\ pc[g] = "fileInfo"
    /\ pc' = [pc EXCEPT ![g] = "goroutineInfo"]
    /\ local' = [local EXCEPT ![g].fileInfo =
                    getFileInfo(local[g].stack \o <<LogFrame, FileInfoFrame>>)]
    /\ calls' = [calls EXCEPT ![local[g].id].readsFileLine = @ + 1]
    /\ UNCHANGED <<config, wallClock, stdout, lastLevel, lastFileLine,
                   lastGoroutineID, clockBack>>

\* src/clog.go 132
logGoroutineInfo(g) ==
    /\ pc[g] = "goroutineInfo"
    /\ LET r == getGoroutineID(g, local[g].stack \o <<LogFrame>>)
           cs == [calls EXCEPT ![local[g].id].readsGoroutineID = @ + 1]
       IN  IF r.panic
           THEN Finish(g, cs, "panicked")
           ELSE /\ pc' = [pc EXCEPT ![g] = "print"]
                /\ local' = [local EXCEPT ![g].goroutineInfo = r.val]
                /\ calls' = cs
    /\ UNCHANGED <<config, wallClock, stdout, lastLevel, lastFileLine,
                   lastGoroutineID, clockBack>>

\* src/clog.go 134-145
logPrint(g) ==
    /\ pc[g] = "print"
    /\ stdout' = Println(stdout, logMsg(local[g].prefix, local[g].timestamp,
                                        local[g].fileInfo, local[g].goroutineInfo,
                                        local[g].msg))
    /\ Return(g, [calls EXCEPT ![local[g].id].lines =
                     [i \in 1..(Len(stdout') - Len(stdout)) |-> Len(stdout) + i]])
    /\ UNCHANGED <<config, wallClock, lastLevel, lastFileLine, lastGoroutineID,
                   clockBack>>

\* src/clog.go 184
panicRaise(g) ==
    /\ pc[g] = "panic"
    /\ Finish(g, calls, "panicked")
    /\ UNCHANGED <<config, wallClock, stdout, lastLevel, lastFileLine,
                   lastGoroutineID, clockBack>>

logWithTimestamp(g) ==
    \/ logFilter(g)
    \/ logTimestamp(g)
    \/ logFileInfo(g)
    \/ logGoroutineInfo(g)
    \/ logPrint(g)

(***************************************************************************)
(* The wall clock, which the system advances and an administrator or a     *)
(* time service may set back.                                              *)
(***************************************************************************)
ClockTick ==
    /\ wallClock < MaxClock
    /\ wallClock' = wallClock + 1
    /\ UNCHANGED <<config, stdout, pc, local, history>>

ClockSetBack ==
    /\ \E t \in 0..(wallClock - 1) : wallClock' = t
    /\ clockBack' = TRUE
    /\ UNCHANGED <<config, stdout, pc, local, calls, lastLevel, lastFileLine,
                   lastGoroutineID>>

(***************************************************************************)
(* Specifications.  Each runs the same operations over the inputs its      *)
(* claims are about; a run makes a bounded number of emission calls.       *)
(***************************************************************************)
Budget(n) == Len(calls) < n

PlainInputs == {In(<<"x">>, << >>, << >>)}
PlainMetric == {In(<< >>, <<<<"latency_ms">>, <<"156.3">>>>, <<<<"endpoint=/api/users">>>>)}
MainStack == <<MainFrame(25)>>

\* Spec: one execution path; every threshold and every channel.
Next ==
    \/ \E level \in LevelArgs : SetLogLevel(1, level)
    \/ /\ Budget(MaxWideCalls)
       /\ \E in \in PlainInputs :
             \/ Info(1, in, MainStack)
             \/ Success(1, in, MainStack)
             \/ InitOp(1, in, MainStack)
             \/ Config(1, in, MainStack)
             \/ Warning(1, in, MainStack)
             \/ Error(1, in, MainStack)
             \/ Debug(1, in, MainStack)
             \/ Trace(1, in, MainStack)
             \/ Panic(1, in, MainStack)
    \/ /\ Budget(MaxWideCalls)
       /\ \E in \in PlainMetric : Metric(1, in, MainStack)
    \/ logWithTimestamp(1)
    \/ panicRaise(1)

Spec == Init /\ [][Next]_vars

\* SpecConfig: one execution path; every setter with every argument.
NextConfig ==
    \/ \E level \in LevelArgs : SetLogLevel(1, level)
    \/ \E show \in BOOLEAN : SetShowFileLine(1, show)
    \/ \E show \in BOOLEAN : SetShowGoroutineID(1, show)
    \/ /\ Budget(MaxWideCalls)
       /\ \E in \in PlainInputs : Info(1, in, MainStack) \/ Panic(1, in, MainStack)
    \/ logWithTimestamp(1)
    \/ panicRaise(1)

SpecConfig == Init /\ [][NextConfig]_vars

\* SpecLookup: one execution path; every channel from every call stack,
\* with the annotations switched on and off.
NextLookup ==
    \/ SetLogLevel(1, TraceLevel)
    \/ \E show \in BOOLEAN : SetShowFileLine(1, show)
    \/ \E show \in BOOLEAN : SetShowGoroutineID(1, show)
    \/ /\ Budget(MaxWideCalls)
       /\ \E in \in PlainInputs, app \in AppStacks :
             \/ Info(1, in, app)
             \/ Success(1, in, app)
             \/ InitOp(1, in, app)
             \/ Config(1, in, app)
             \/ Warning(1, in, app)
             \/ Error(1, in, app)
             \/ Debug(1, in, app)
             \/ Trace(1, in, app)
             \/ Panic(1, in, app)
    \/ /\ Budget(MaxWideCalls)
       /\ \E in \in PlainMetric, app \in AppStacks : Metric(1, in, app)
    \/ logWithTimestamp(1)
    \/ panicRaise(1)

SpecLookup == Init /\ [][NextLookup]_vars

\* SpecFormat: one execution path; several lines with the annotations
\* toggled between them.
NextFormat ==
    \/ \E show \in BOOLEAN : SetShowFileLine(1, show)
    \/ \E show \in BOOLEAN : SetShowGoroutineID(1, show)
    \/ /\ Budget(MaxCalls)
       /\ \E in \in MessageInputs, app \in {<< >>, MainStack} : Info(1, in, app)
    \/ /\ Budget(MaxCalls)
       /\ \E in \in PlainMetric, app \in {<< >>, MainStack} : Metric(1, in, app)
    \/ logWithTimestamp(1)

SpecFormat == Init /\ [][NextFormat]_vars

\* SpecMetric: one execution path; Metric with every sequence of tags.
NextMetric ==
    \/ /\ Budget(MaxCalls)
       /\ \E in \in MetricInputs : Metric(1, in, MainStack)
    \/ logWithTimestamp(1)

SpecMetric == Init /\ [][NextMetric]_vars

\* SpecClock: one execution path; several lines while the wall clock moves.
NextClock ==
    \/ /\ Budget(MaxCalls)
       /\ \E in \in PlainInputs : Info(1, in, MainStack) \/ Debug(1, in, MainStack)
    \/ logWithTimestamp(1)
    \/ ClockTick
    \/ ClockSetBack

SpecClock == Init /\ [][NextClock]_vars

\* SpecConcurrent: every goroutine emits; the configuration is not changed.
NextConcurrent ==
    \/ /\ Budget(MaxCalls)
       /\ \E g \in Goroutines, in \in PlainInputs :
             Info(g, in, MainStack) \/ Debug(g, in, MainStack)
    \/ \E g \in Goroutines : logWithTimestamp(g)

SpecConcurrent == Init /\ [][NextConcurrent]_vars

\* SpecRace: goroutine 1 emits while goroutine 2 calls the setters.
RaceLevels == {WarningLevel}

NextRace ==
    \/ \E level \in RaceLevels : SetLogLevel(2, level)
    \/ \E show \in BOOLEAN : SetShowFileLine(2, show)
    \/ \E show \in BOOLEAN : SetShowGoroutineID(2, show)
    \/ /\ Budget(MaxWideCalls)
       /\ \E in \in PlainInputs : Info(1, in, MainStack)
    \/ logWithTimestamp(1)

SpecRace == Init /\ [][NextRace]_vars

(***************************************************************************)
(* What the claims speak of, read off the history and standard output.     *)
(***************************************************************************)
\* The severity the specification binds each channel to.
Severity(ch) ==
    CASE ch \in {"Info", "Success", "Init", "Config", "Metric"} -> InfoLevel
      [] ch = "Warning" -> WarningLevel
      [] ch = "Error" -> ErrorLevel
      [] ch = "Debug" -> DebugLevel
      [] ch = "Trace" -> TraceLevel
      [] ch = "Panic" -> PanicLevel

CallIds == 1..Len(calls)
Completed(c) == c.status # "running"
Wrote(c) == c.lines # << >>
\* The first write of a call that wrote.
LineOf(c) == stdout[c.lines[1]]

\* One write holding exactly one line: it ends with its only newline.
IsOneLine(w) ==
    /\ Len(w) > 0
    /\ w[Len(w)] = "\n"
    /\ \A k \in 1..(Len(w) - 1) : w[k] # "\n"

\* A line starts with the prefix and the bracketed timestamp, five tokens;
\* a [file:line] segment, five more, and a (goroutine id) segment follow.
HasFileSeg(w) == Len(w) >= 10 /\ w[6] = " [" /\ w[8] = ":" /\ w[10] = "]"
HasGoroutineSeg(w) ==
    LET k == IF HasFileSeg(w) THEN 11 ELSE 6
    IN  Len(w) >= k + 3 /\ w[k] = " " /\ w[k + 1] = "(goroutine " /\ w[k + 3] = ")"

Caller(c) == c.app[Len(c.app)]
Resolved(c) == c.app # << >>

\* The body of a call's message as the specification words it.
RECURSIVE TagList(_)
TagList(tags) ==
    IF tags = << >> THEN << >>
    ELSE IF Len(tags) = 1 THEN tags[1]
    ELSE TagList(SubSeq(tags, 1, Len(tags) - 1)) \o <<", ">> \o tags[Len(tags)]

MetricBody(in) ==
    in.args[1] \o <<": ">> \o in.args[2]
    \o (IF in.tags = << >> THEN << >> ELSE <<" [">> \o TagList(in.tags) \o <<"]">>)

Body(c) == IF c.ch = "Metric" THEN MetricBody(c.in) ELSE Sprintf(c.in.format, c.in.args)

\* The whole line of a call: prefix, [timestamp], [file:line]?, (goroutine
\* id)?, message, newline.
Rendered(c, withFile, withGoroutine) ==
    Prefix[c.ch]
    \o <<" [", ToString(c.clockAt \div TicksPerMs), " UTC", "]">>
    \o (IF withFile
        THEN <<" [", Caller(c).file[Len(Caller(c).file)], ":", ToString(Caller(c).line), "]">>
        ELSE << >>)
    \o (IF withGoroutine THEN <<" ", "(goroutine ", ToString(c.g), ")">> ELSE << >>)
    \o <<" ">> \o Body(c) \o <<"\n">>

\* The number a rendered timestamp shows.
ShownMs(w) ==
    LET shown == {n \in 0..(MaxClock + LocalZoneOffsetMs + 1) : ToString(n) = w[3]}
    IN  IF shown = {} THEN -1 ELSE CHOOSE n \in shown : TRUE

(***************************************************************************)
(* C1: a completed call of a non-Fatal channel wrote exactly one line when *)
(* the channel's severity is at most the threshold last stored by          *)
(* SetLogLevel (InfoLevel before any), and nothing when it is greater;     *)
(* Success, Init, Config and Metric are bound to InfoLevel like Info.      *)
(* Checked under Spec.                                                     *)
(***************************************************************************)
C1_SeverityFilter ==
    \A i \in CallIds :
        LET c == calls[i]
        IN  (c.ch # "Panic" /\ Completed(c)) =>
                IF Severity(c.ch) <= c.level0
                THEN Len(c.lines) = 1 /\ IsOneLine(LineOf(c))
                ELSE c.lines = << >>

C1_Witness ==
    \E i \in CallIds :
        /\ calls[i].ch = "Metric"
        /\ calls[i].status = "returned"
        /\ calls[i].level0 = InfoLevel
        /\ Len(calls[i].lines) = 1
        /\ currentLogLevel = WarningLevel

(***************************************************************************)
(* C2: a completed call of Panic wrote exactly one line and panicked,      *)
(* whatever threshold SetLogLevel stored.  Checked under Spec.             *)
(***************************************************************************)
C2_PanicAlwaysLogsAndAborts ==
    \A i \in CallIds :
        LET c == calls[i]
        IN  (c.ch = "Panic" /\ Completed(c)) =>
                /\ c.status = "panicked"
                /\ Len(c.lines) = 1
                /\ IsOneLine(LineOf(c))

C4_LineLayout ==
    \A i \in CallIds :
        LET c == calls[i]
        IN  Wrote(c) =>
                LineOf(c) = Rendered(c, c.fileLine0 /\ Resolved(c), c.goroutineID0)

\* A bare line after both annotations were switched off, then a line with
\* the [file:line] segment again after source location was switched on.
C4_Witness ==
    /\ Len(calls) >= 2
    /\ Wrote(calls[1]) /\ Wrote(calls[2])
    /\ ~calls[1].fileLine0 /\ ~calls[1].goroutineID0 /\ Resolved(calls[1])
    /\ LineOf(calls[1]) = Rendered(calls[1], FALSE, FALSE)
    /\ calls[2].fileLine0 /\ Resolved(calls[2])
    /\ HasFileSeg(LineOf(calls[2]))

(***************************************************************************)
(* C5: for each of the ten public operations, the file and line in the     *)
(* [file:line] segment are those of the frame that called the operation,   *)
(* never of a frame of package clog.  Checked under SpecLookup.            *)
(***************************************************************************)
C5_CallerFrameReported ==
    \A i \in CallIds :
        LET c == calls[i]
        IN  (Wrote(c) /\ c.fileLine0 /\ Resolved(c)) =>
                LET w == LineOf(c)
                IN  /\ HasFileSeg(w)
                    /\ w[7] = Caller(c).file[Len(Caller(c).file)]
                    /\ w[9] = ToString(Caller(c).line)
                    /\ Caller(c).fn \notin ClogFunctions
                    /\ w[7] # ClogFile[Len(ClogFile)]

C5_Witness ==
    \E i \in CallIds :
        /\ calls[i].ch = "Panic"
        /\ Len(calls[i].app) = 2
        /\ calls[i].fileLine0
        /\ Wrote(calls[i])
        /\ LineOf(calls[i])[9] = ToString(HelperFrame.line)

(***************************************************************************)
(* C6: the message Metric passes on, and the message at the end of its     *)
(* line, is name, ": ", value and, only when there is at least one tag,    *)
(* " [", the tags joined with ", " in call order, "]".  Checked under      *)
(* SpecMetric.                                                             *)
(***************************************************************************)
C6_MetricRendering ==
    /\ \A g \in Goroutines :
          local[g].ch = "Metric" => local[g].msg = MetricBody(calls[local[g].id].in)
    /\ \A i \in CallIds :
          LET c == calls[i]
              tail == <<" ">> \o MetricBody(c.in) \o <<"\n">>
          IN  (c.ch = "Metric" /\ Wrote(c)) =>
                  LET w == LineOf(c)
                  IN  /\ Len(w) >= Len(tail)
                      /\ SubSeq(w, Len(w) - Len(tail) + 1, Len(w)) = tail

C6_Witness ==
    /\ Len(calls) >= 2
    /\ calls[1].in.tags = << >> /\ Wrote(calls[1])
    /\ LineOf(calls[1])[Len(LineOf(calls[1])) - 1] = "156.3"
    /\ calls[2].in.tags = <<<<"host=primary">>, <<"db=postgres">>>> /\ Wrote(calls[2])

(***************************************************************************)
(* C7: each configuration field equals the argument of the latest call of  *)
(* its own setter, or its default before any: a setter changes only its    *)
(* own field and no emission changes any.  Checked under SpecConfig.       *)
(***************************************************************************)
C7_ConfigFrame ==
    /\ currentLogLevel = lastLevel
    /\ showFileLine = lastFileLine
    /\ showGoroutineID = lastGoroutineID

C7_Witness ==
    \E i \in CallIds :
        /\ Completed(calls[i])
        /\ calls[i].level0 = ErrorLevel
        /\ calls[i].goroutineID0 = FALSE
        /\ lastLevel = TraceLevel + 1
        /\ lastFileLine = FALSE
        /\ lastGoroutineID = TRUE

(***************************************************************************)
(* C8, as claimed: the timestamps of the emitted lines, in output order,   *)
(* never decrease.  Checked under SpecClock.                               *)
(***************************************************************************)
C8_TimestampsNeverDecrease ==
    \A j \in 1..Len(stdout) : \A k \in j..Len(stdout) :
        ShownMs(stdout[j]) <= ShownMs(stdout[k])

(***************************************************************************)
(* C8, amended: every line shows the wall clock as read during its call,   *)
(* in UTC and cut to whole milliseconds, and the timestamp of a line is at *)
(* least that of the line before it unless the wall clock was set back     *)
(* between the two readings.  Checked under SpecClock.                     *)
(***************************************************************************)
C8_NeverDecreaseUnlessClockSetBack ==
    /\ \A i \in CallIds :
          Wrote(calls[i]) =>
              /\ LineOf(calls[i])[3] = ToString(calls[i].clockAt \div TicksPerMs)
              /\ LineOf(calls[i])[4] = " UTC"
    /\ \A i \in CallIds : \A j \in CallIds :
          (/\ i < j
           /\ Wrote(calls[i]) /\ Wrote(calls[j])
           /\ \A m \in (i + 1)..j : Completed(calls[m]) => ~calls[m].backstep) =>
              ShownMs(LineOf(calls[i])) <= ShownMs(LineOf(calls[j]))

C8_Witness ==
    /\ Len(calls) >= 2
    /\ Wrote(calls[1]) /\ Wrote(calls[2])
    /\ ~calls[2].backstep
    /\ calls[1].clockAt = 1
    /\ ShownMs(LineOf(calls[1])) = 0
    /\ ShownMs(LineOf(calls[2])) = 1

(***************************************************************************)
(* C9: with goroutines emitting concurrently under a fixed configuration,  *)
(* every completed permitted call accounts for exactly one write, which is *)
(* its whole line with its newline, every filtered call for none, and      *)
(* standard output holds nothing else.  Checked under SpecConcurrent.      *)
(***************************************************************************)
C9_WholeLines ==
    /\ \A i \in CallIds :
          LET c == calls[i]
          IN  /\ Completed(c) =>
                    Len(c.lines) = (IF Severity(c.ch) <= lastLevel THEN 1 ELSE 0)
              /\ Wrote(c) =>
                    /\ Len(c.lines) = 1
                    /\ LineOf(c) = Rendered(c, TRUE, TRUE)
    /\ \A k \in 1..Len(stdout) :
          Cardinality({i \in CallIds : \E n \in 1..Len(calls[i].lines) :
                                            calls[i].lines[n] = k}) = 1

\* Two goroutines' calls overlap: the one that began second wrote first.
C9_Witness ==
    /\ Len(calls) >= 2
    /\ calls[1].g # calls[2].g
    /\ calls[2].lines = <<1>>
    /\ calls[1].lines = <<2>>

(***************************************************************************)
(* C10: an emission call that runs while setters are called reads each     *)
(* configuration field at most once and writes at most one line; whether   *)
(* it writes is the filter's result for a threshold the field held during  *)
(* the call, and each annotation segment is present as for a value its     *)
(* flag held during the call.  Checked under SpecRace.                     *)
(***************************************************************************)
C10_ReadsOnceEach ==
    \A i \in CallIds :
        LET c == calls[i]
        IN  /\ c.readsLevel <= 1 /\ c.readsFileLine <= 1 /\ c.readsGoroutineID <= 1
            /\ Len(c.lines) <= 1
            /\ Completed(c) =>
                  /\ c.status = "returned"
                  /\ \E t \in c.heldLevel : Wrote(c) <=> (Severity(c.ch) <= t)
                  /\ Wrote(c) =>
                        /\ \E f \in c.heldFlags :
                              HasFileSeg(LineOf(c)) <=> (f[1] /\ Resolved(c))
                        /\ \E f \in c.heldFlags : HasGoroutineSeg(LineOf(c)) <=> f[2]

\* A line with the [file:line] segment and without the (goroutine id)
\* segment, from a call during which the two flags never held that pair.
C10_Witness ==
    \E i \in CallIds :
        /\ Wrote(calls[i])
        /\ HasFileSeg(LineOf(calls[i]))
        /\ ~HasGoroutineSeg(LineOf(calls[i]))
        /\ <<TRUE, FALSE>> \notin calls[i].heldFlags
        /\ Cardinality(calls[i].heldLevel) = 2

====
